---------------------------- MODULE Spec2Model ----------------------------
(***************************************************************************)
(* A model of LAC (Lazy API Coder): the inference of Go struct types from  *)
(* JSON samples or from a swagger component set.                           *)
(*                                                                         *)
(* Strings are sequences of one-character strings, so that the name        *)
(* functions (normalizeNames, capitalize, typeFromRef) and the registry    *)
(* keys built from them ("<parent>.<key>") are computed as the code        *)
(* computes them.                                                          *)
(***************************************************************************)
EXTENDS Integers, Sequences, FiniteSets, TLC

VARIABLES
    targetPackage,  \* config.targetPackage
    fileTypeMap,    \* config.fileTypeMap, the --structnames overrides
    typeMap,        \* the registry: key -> (field name -> maybeType)
    outerTypes,     \* key -> file the type was last seen in
    call,           \* the last operation applied and its arguments
    ret,            \* what that operation returned
    calls,          \* number of typeExists calls made so far
    docs,           \* what jsonIntoMap returned: file -> decoded top-level values
    pending,        \* files typesFromMap has not ranged over yet
    file,           \* the file typesFromMap is at (tn), <<>> between files
    idx,            \* position in docs[file] of the value it is at (tf)
    stack,          \* the unWrapMap calls in progress, innermost last
    run,            \* number of the run of the program: 1, 2, ...
    previousFinal,  \* the registry the run before this one ended with
    swagger,        \* the components.schemas of the swagger file
    compsLeft,      \* components schemaIntoMap has not ranged over yet
    extraComments,  \* component -> description
    disk,           \* the files jsonIntoMap is given: path -> what reading it gives
    expanded,       \* jsonIntoMap's list of the paths to read, in order
    nRead,          \* how many paths of expanded jsonIntoMap has been through
    err,            \* the error realMain returns, "" while there is none
    output,         \* what makeMeCode has written
    proc            \* the process: its arguments, where main is, how it ended

vars == <<targetPackage, fileTypeMap, typeMap, outerTypes, call, ret, calls,
          docs, pending, file, idx, stack, run, previousFinal,
          swagger, compsLeft, extraComments,
          disk, expanded, nRead, err, output, proc>>
cfgVars == <<targetPackage, fileTypeMap>>
regVars == <<typeMap, outerTypes>>
passVars == <<docs, pending, file, idx, stack, run, previousFinal>>
swagVars == <<swagger, compsLeft, extraComments>>
mainVars == <<disk, expanded, nRead, err, output, proc>>

-----------------------------------------------------------------------------
(* Bounds of the model.                                                     *)

\* Longest raw name enumerated for the name functions.
MaxNameLen == 3
\* Longest scope (package) name enumerated for the name functions.
MaxScopeLen == 2

-----------------------------------------------------------------------------
(* package strings / unicode, restricted to ASCII.                          *)

LowerLetters ==
    <<"a","b","c","d","e","f","g","h","i","j","k","l","m",
      "n","o","p","q","r","s","t","u","v","w","x","y","z">>

UpperLetters ==
    <<"A","B","C","D","E","F","G","H","I","J","K","L","M",
      "N","O","P","Q","R","S","T","U","V","W","X","Y","Z">>

Digits == {"0","1","2","3","4","5","6","7","8","9"}

\* unicode.ToLower and unicode.ToUpper on the ASCII letters, as tables.
LowerOf == [r \in {UpperLetters[i] : i \in DOMAIN UpperLetters} |->
               LowerLetters[CHOOSE i \in DOMAIN UpperLetters : UpperLetters[i] = r]]

UpperOf == [r \in {LowerLetters[i] : i \in DOMAIN LowerLetters} |->
               UpperLetters[CHOOSE i \in DOMAIN LowerLetters : LowerLetters[i] = r]]

IsUpper(r) == r \in DOMAIN LowerOf

IsLowerRune(r) == r \in DOMAIN UpperOf

ToLowerRune(r) == IF IsUpper(r) THEN LowerOf[r] ELSE r

ToUpperRune(r) == IF IsLowerRune(r) THEN UpperOf[r] ELSE r

RECURSIVE ToLower(_)
ToLower(s) ==
    IF s = <<>> THEN <<>> ELSE <<ToLowerRune(Head(s))>> \o ToLower(Tail(s))

RECURSIVE ToUpper(_)
ToUpper(s) ==
    IF s = <<>> THEN <<>> ELSE <<ToUpperRune(Head(s))>> \o ToUpper(Tail(s))

HasPrefix(s, p) == Len(s) >= Len(p) /\ SubSeq(s, 1, Len(p)) = p

HasSuffix(s, p) == Len(s) >= Len(p) /\ SubSeq(s, Len(s) - Len(p) + 1, Len(s)) = p

\* s[n:] of Go, n counted from 0.
SliceFrom(s, n) == SubSeq(s, n + 1, Len(s))

\* s[:n] of Go.
SliceTo(s, n) == SubSeq(s, 1, n)

\* strings.Replace(s, old, new, -1) for a one-character old and new.
RECURSIVE ReplaceRune(_, _, _)
ReplaceRune(s, old, new) ==
    IF s = <<>> THEN <<>>
    ELSE <<IF Head(s) = old THEN new ELSE Head(s)>> \o ReplaceRune(Tail(s), old, new)

\* strings.Split(s, sep) for a one-character sep: Split("", sep) is <<"">>.
RECURSIVE SplitFrom(_, _, _, _)
SplitFrom(s, sep, i, cur) ==
    IF i > Len(s) THEN <<cur>>
    ELSE IF s[i] = sep THEN <<cur>> \o SplitFrom(s, sep, i + 1, <<>>)
    ELSE SplitFrom(s, sep, i + 1, Append(cur, s[i]))

Split(s, sep) == SplitFrom(s, sep, 1, <<>>)

\* strings.Join(parts, "").
RECURSIVE Concat(_)
Concat(parts) ==
    IF parts = <<>> THEN <<>> ELSE Head(parts) \o Concat(Tail(parts))

\* strings.LastIndex(s, sep) for a one-character sep, counted from 0; -1 if absent.
LastIndex(s, sep) ==
    IF \E i \in 1..Len(s) : s[i] = sep
    THEN (CHOOSE i \in 1..Len(s) :
              s[i] = sep /\ \A j \in (i + 1)..Len(s) : s[j] # sep) - 1
    ELSE -1

\* strings.isSeparator: ASCII letters, digits and '_' do not separate words.
IsSeparator(r) == ~(IsUpper(r) \/ IsLowerRune(r) \/ r \in Digits \/ r = "_")

\* strings.Title: upper-cases the first letter of every word.
RECURSIVE TitleFrom(_, _)
TitleFrom(s, i) ==
    IF i > Len(s) THEN <<>>
    ELSE <<IF i = 1 \/ IsSeparator(s[i - 1]) THEN ToUpperRune(s[i]) ELSE s[i]>>
         \o TitleFrom(s, i + 1)

Title(s) == TitleFrom(s, 1)

-----------------------------------------------------------------------------
(* Go maps are functions; the empty map is the function of empty domain.    *)

EmptyMap == [k \in {} |-> {}]

\* m[k] = v of Go.
Put(m, k, v) == [x \in DOMAIN m \cup {k} |-> IF x = k THEN v ELSE m[x]]

-----------------------------------------------------------------------------
(* Names that the code spells out.                                          *)

topLevel == <<"t","o","p","L","e","v","e","l">>
emptyInterface == <<"i","n","t","e","r","f","a","c","e","{","}">>
mapPrefix == <<"m","a","p","[">>
acrURL == <<"u","r","l">>
acrID == <<"i","d">>
acrJSON == <<"j","s","o","n">>
acrHTML == <<"h","t","m","l">>
defaultPackage == <<"m","a","i","n">>

-----------------------------------------------------------------------------
(* normalizeNames                                                           *)

\* The loop of normalizeNames: every upper-case rune is lower-cased and, unless
\* it is the first rune, preceded by '_'.
RECURSIVE SnakeFrom(_, _)
SnakeFrom(name, i) ==
    IF i > Len(name) THEN <<>>
    ELSE (IF IsUpper(name[i])
          THEN (IF i > 1 THEN <<"_">> ELSE <<>>) \o <<ToLowerRune(name[i])>>
          ELSE <<name[i]>>) \o SnakeFrom(name, i + 1)

\* A normalizeNames that puts no separator before an upper-case letter.
SnakePlain(name) == ToLower(name)

Snake(name) == SnakeFrom(name, 1)

\* The stutter test: made on the lower-cased RAW name, not on Snake(name).
Stutters(name, pkgName) ==
    HasPrefix(ToLower(name), ToLower(pkgName)) /\ Len(name) # Len(pkgName)

normalizeNames(name, pkgName) ==
    IF Stutters(name, pkgName)
    THEN SliceFrom(Snake(name), Len(pkgName))
    ELSE Snake(name)

-----------------------------------------------------------------------------
(* capitalize                                                               *)

\* One round of the inner loop of capitalize for the acronym a: pl is the
\* lower-cased part as it was split, p the part as rewritten so far.
AcronymStep(p, pl, a) ==
    LET p1 == IF HasSuffix(pl, a)
              THEN SliceTo(p, Len(p) - Len(a)) \o ToUpper(a)
              ELSE p
    IN  IF HasPrefix(pl, a) THEN ToUpper(a) \o SliceFrom(p1, Len(a)) ELSE p1

CapitalizePart(p) ==
    LET pl == ToLower(p)
        p0 == IF pl \in {acrURL, acrID, acrJSON, acrHTML} THEN ToUpper(pl) ELSE p
        p1 == AcronymStep(p0, pl, acrURL)
        p2 == AcronymStep(p1, pl, acrID)
        p3 == AcronymStep(p2, pl, acrHTML)
    IN  Title(p3)

RECURSIVE CapitalizeParts(_)
CapitalizeParts(parts) ==
    IF parts = <<>> THEN <<>>
    ELSE CapitalizePart(Head(parts)) \o CapitalizeParts(Tail(parts))

capitalize(s) ==
    IF s = emptyInterface \/ HasPrefix(s, mapPrefix) THEN s
    ELSE LET s1 == ReplaceRune(s, ".", "_")
             s2 == ReplaceRune(s1, "-", "_")
             s3 == ReplaceRune(s2, "\\", "_")
             parts == Split(s3, "_")
         IN  CapitalizeParts(parts)

-----------------------------------------------------------------------------
(* Inputs of the name functions.                                            *)

NameChars == {"a", "i", "d", "B", "_"}
ScopeChars == {"a", "_"}

\* Names and scopes of realistic length, beside the enumerated short ones.
SampleNames ==
    {<<"I","s","s","u","e","T","y","p","e">>, <<"i","s","s","u","e","T","y","p","e">>,
     <<"i","s","s","u","e","_","t","y","p","e">>, <<"u","s","e","r","_","u","r","l">>,
     <<"m","a","i","n","I","t","e","m">>, <<"h","t","m","l","_","j","s","o","n">>}

SampleScopes == {defaultPackage, <<"i","s","s","u","e">>, <<"i","s","s","u","e","t">>}

RECURSIVE SeqsUpTo(_, _)
SeqsUpTo(S, n) ==
    IF n = 0 THEN {<<>>}
    ELSE LET shorter == SeqsUpTo(S, n - 1)
         IN  shorter \cup {Append(s, c) : s \in {t \in shorter : Len(t) = n - 1}, c \in S}

NameInputs == (SeqsUpTo(NameChars, MaxNameLen) \ {<<>>}) \cup SampleNames
ScopeInputs == SeqsUpTo(ScopeChars, MaxScopeLen) \cup SampleScopes


\* Words of lower-case letters, and the three spellings of a name made of them.
WordInputs ==
    {<<"a">>, <<"b">>, <<"a","b">>, <<"i","d">>,
     <<"i","s","s","u","e">>, <<"t","y","p","e">>}

\* Most words enumerated in one name.
MaxWords == 2

WordLists == {ws \in SeqsUpTo(WordInputs, MaxWords) : ws # <<>>}

RECURSIVE UpperCamel(_)
UpperCamel(words) ==
    IF words = <<>> THEN <<>> ELSE Title(Head(words)) \o UpperCamel(Tail(words))

LowerCamel(words) == Head(words) \o UpperCamel(Tail(words))

RECURSIVE SnakeTail(_)
SnakeTail(words) ==
    IF words = <<>> THEN <<>> ELSE <<"_">> \o Head(words) \o SnakeTail(Tail(words))

SnakeCase(words) == Head(words) \o SnakeTail(Tail(words))

-----------------------------------------------------------------------------
(* The name functions applied to enumerated inputs.                         *)

NoCall == [op |-> "none"]
NoRet == [out |-> <<>>]

\* The JSON pass and the swagger pass before they start.
NoPass ==
    /\ docs = EmptyMap
    /\ pending = {}
    /\ file = <<>>
    /\ idx = 0
    /\ stack = <<>>
    /\ run = 0
    /\ previousFinal = EmptyMap

NoSwagger ==
    /\ swagger = EmptyMap
    /\ compsLeft = {}
    /\ extraComments = EmptyMap

\* No error.
NoError == ""

\* Nothing written.
NoOutput == [written |-> FALSE, structs |-> {}]

\* realMain with nothing to read, before it has returned or written.
\* A process that has not ended has no exit status.
Running == -1

\* The process when main starts, with command-line arguments that pflag
\* accepts ("good") or not ("bad").
Started(args) ==
    [args |-> args, phase |-> "start", depth |-> 0, status |-> Running, by |-> "none"]

NoMain ==
    /\ disk = EmptyMap
    /\ expanded = <<>>
    /\ nRead = 0
    /\ err = NoError
    /\ output = NoOutput
    /\ proc = Started("good")

CallNormalizeNames(name, pkgName) ==
    /\ call = NoCall
    /\ call' = [op |-> "normalizeNames", name |-> name, pkgName |-> pkgName]
    /\ ret' = [out |-> normalizeNames(name, pkgName)]
    /\ UNCHANGED <<cfgVars, regVars, calls, passVars, swagVars, mainVars>>

\* normalizeNames on the three spellings of one list of words.
CallSpellings(words, pkgName) ==
    /\ call = NoCall
    /\ call' = [op |-> "spellings", words |-> words, pkgName |-> pkgName]
    /\ ret' = [upperCamel |-> normalizeNames(UpperCamel(words), pkgName),
               lowerCamel |-> normalizeNames(LowerCamel(words), pkgName),
               snakeCase |-> normalizeNames(SnakeCase(words), pkgName)]
    /\ UNCHANGED <<cfgVars, regVars, calls, passVars, swagVars, mainVars>>

\* capitalize(normalizeNames(s)) and the same applied to its own output.
CallRoundTrip(name, pkgName) ==
    LET d == capitalize(normalizeNames(name, pkgName))
    IN  /\ call = NoCall
        /\ call' = [op |-> "roundTrip", name |-> name, pkgName |-> pkgName]
        /\ ret' = [display |-> d, again |-> capitalize(normalizeNames(d, pkgName))]
        /\ UNCHANGED <<cfgVars, regVars, calls, passVars, swagVars, mainVars>>

InitNames ==
    /\ targetPackage = defaultPackage
    /\ fileTypeMap = EmptyMap
    /\ typeMap = EmptyMap
    /\ outerTypes = EmptyMap
    /\ call = NoCall
    /\ ret = NoRet
    /\ calls = 0
    /\ NoPass
    /\ NoSwagger
    /\ NoMain

NextNames ==
    \/ call = NoCall /\ \E name \in NameInputs, pkgName \in ScopeInputs :
                            CallNormalizeNames(name, pkgName)
    \/ call = NoCall /\ \E words \in WordLists, pkgName \in ScopeInputs :
                            CallSpellings(words, pkgName)
    \/ call = NoCall /\ \E name \in NameInputs, pkgName \in ScopeInputs :
                            CallRoundTrip(name, pkgName)

SpecNames == InitNames /\ [][NextNames]_vars

-----------------------------------------------------------------------------
(* Properties of the name functions.                                        *)

\* C8: the UpperCamel, lowerCamel and snake_case spellings of the same
\* lower-case words are given the same key by normalizeNames, under the same
\* scope name.
SpellingsAgree ==
    call.op = "spellings" =>
        /\ ret.upperCamel = ret.lowerCamel
        /\ ret.lowerCamel = ret.snakeCase

\* C9: normalizeNames removes the leading scope name from the canonical form
\* exactly when the canonical form begins with the scope name and is strictly
\* longer than it; otherwise it returns the canonical form unchanged.
StripsCanonicalPrefix ==
    call.op = "normalizeNames" =>
        ret.out = IF /\ HasPrefix(Snake(call.name), call.pkgName)
                     /\ Len(Snake(call.name)) > Len(call.pkgName)
                  THEN SliceFrom(Snake(call.name), Len(call.pkgName))
                  ELSE Snake(call.name)

Strips(name, pkgName) == Stutters(name, pkgName) /\ pkgName # <<>>

-----------------------------------------------------------------------------
(* maybeType                                                                *)

\* reflect.Type values the code meets; NilType is a nil reflect.Type.
NilType == "nil"
SliceType == "[]interface {}"
MapType == "map[string]interface {}"

\* reflect.Type.Name(): an unnamed (composite) type has the empty name.
TypeName(t) == IF t \in {SliceType, MapType} THEN "" ELSE t

MaybeType(isArray, typeOf, nameOftype, fileName) ==
    [isArray |-> isArray, typeOf |-> typeOf, nameOftype |-> nameOftype,
     originalFileName |-> fileName, multiType |-> <<>>, description |-> ""]

\* A comparison that also looks at isArray.
EqualsArrays(m, mt) ==
    /\ m.isArray = mt.isArray
    /\ IF m.typeOf # NilType /\ mt.typeOf # NilType
       THEN TypeName(m.typeOf) = TypeName(mt.typeOf)
       ELSE IF m.nameOftype # <<>> /\ mt.nameOftype # <<>>
       THEN m.nameOftype = mt.nameOftype
       ELSE FALSE

\* maybeType.Equals
Equals(m, mt) ==
    IF m.typeOf # NilType /\ mt.typeOf # NilType
    THEN TypeName(m.typeOf) = TypeName(mt.typeOf)
    ELSE IF m.nameOftype # <<>> /\ mt.nameOftype # <<>>
    THEN m.nameOftype = mt.nameOftype
    ELSE FALSE

-----------------------------------------------------------------------------
(* typeExists                                                               *)

\* A typeExists that does not consult the override table.
RenamedNever(name) == name

\* Lines 148-155: the override table is consulted with the raw name, and the
\* name it gives (or the raw name) is normalized.
Renamed(name) == IF name \in DOMAIN fileTypeMap THEN fileTypeMap[name] ELSE name

CanonicalKey(name) == normalizeNames(Renamed(name), targetPackage)

LastSegment(k) == LET parts == Split(k, ".") IN parts[Len(parts)]

\* A lookup that only knows the exact key.
LookupsExact(tm, key) == IF key \in DOMAIN tm THEN {key} ELSE {}

\* The keys the lookup of lines 157-168 may settle on: the exact key or, when
\* it is absent, any key whose last segment is the key (the order in which a
\* Go map is ranged over is not specified).
Lookups(tm, key) ==
    IF key \in DOMAIN tm THEN {key}
    ELSE {k \in DOMAIN tm : LastSegment(k) = key}

\* Lines 177-187 and 189-200: some field of both shapes is not Equals.
Conflict(existing, ours) ==
    \/ \E k \in DOMAIN existing : k \in DOMAIN ours /\ ~Equals(existing[k], ours[k])
    \/ \E k \in DOMAIN ours : k \in DOMAIN existing /\ ~Equals(ours[k], existing[k])

\* A merge that adds no field.
WidenNone(existing, ours) == existing

\* Lines 189-203: the fields of ours that existing lacks are added to it.
Widen(existing, ours) ==
    [k \in DOMAIN existing \cup DOMAIN ours |->
        IF k \in DOMAIN existing THEN existing[k] ELSE ours[k]]

\* fmt.Sprintf("%s.%s", parent, foundName)
Qualified(parent, foundName) == parent \o <<".">> \o foundName

\* A fork that stores the candidate over the entry it matched.
ForkInPlace(tm, parent, foundName, ours) ==
    [types |-> Put(tm, foundName, ours),
     name |-> Qualified(parent, foundName), merged |-> FALSE]

\* A fork that moves the entry it matched to the qualified name.
ForkMoving(tm, parent, foundName, ours) ==
    [types |-> [k \in (DOMAIN tm \ {foundName}) \cup {Qualified(parent, foundName)} |->
                   IF k = Qualified(parent, foundName) THEN ours ELSE tm[k]],
     name |-> Qualified(parent, foundName), merged |-> FALSE]

\* Lines 183-185 and 196-198: the candidate is stored under the qualified name.
Fork(tm, parent, foundName, ours) ==
    [types |-> Put(tm, Qualified(parent, foundName), ours),
     name |-> Qualified(parent, foundName), merged |-> FALSE]

\* A merge that leaves the candidate in the place of the entry.
MergeReplace(tm, foundName, ours) ==
    [types |-> Put(tm, foundName, ours), name |-> foundName, merged |-> TRUE]

\* Lines 201-205: the widened shape is written back under the found name.
Merge(tm, foundName, ours) ==
    [types |-> Put(tm, foundName, Widen(tm[foundName], ours)),
     name |-> foundName, merged |-> TRUE]

\* A new type that is returned and not stored.
InsertNowhere(tm, key, ours) == [types |-> tm, name |-> key, merged |-> FALSE]

\* Lines 169-173: a new type is stored under the canonical key.
Insert(tm, key, ours) == [types |-> Put(tm, key, ours), name |-> key, merged |-> FALSE]

\* typeExists, for the key `found` its lookup settled on (found \in
\* Lookups(tm, CanonicalKey(name)), any value when that set is empty).
typeExists(name, parent, ours, tm, found) ==
    LET key == CanonicalKey(name)
    IN  IF Lookups(tm, key) = {}
        THEN Insert(tm, key, ours)
        ELSE IF Conflict(tm[found], ours)
        THEN Fork(tm, parent, found, ours)
        ELSE Merge(tm, found, ours)

\* What `found` may be for a lookup of key.
FoundChoices(tm, key) == IF Lookups(tm, key) = {} THEN {key} ELSE Lookups(tm, key)

\* The orders in which a range over a map with the keys S may visit them.
Orders(S) ==
    {s \in [1..Cardinality(S) -> S] : \A i, j \in DOMAIN s : s[i] = s[j] => i = j}

\* Lines 177-187: the loop over existing, its keys visited in the given
\* order; TRUE when it returns from the function with a fork.
RECURSIVE ExistingLoop(_, _, _)
ExistingLoop(existing, ours, order) ==
    IF order = <<>> THEN FALSE
    ELSE LET k == Head(order)
         IN  IF k \notin DOMAIN ours
             THEN ExistingLoop(existing, ours, Tail(order))
             ELSE IF ~Equals(existing[k], ours[k]) THEN TRUE
             ELSE ExistingLoop(existing, ours, Tail(order))

\* Lines 189-200: the loop over ours, its keys visited in the given order,
\* with the missing fields collected so far.
RECURSIVE OursLoop(_, _, _, _)
OursLoop(existing, ours, order, missing) ==
    IF order = <<>> THEN [conflict |-> FALSE, missing |-> missing]
    ELSE LET k == Head(order)
         IN  IF k \notin DOMAIN existing
             THEN OursLoop(existing, ours, Tail(order), Put(missing, k, ours[k]))
             ELSE IF ~Equals(ours[k], existing[k])
             THEN [conflict |-> TRUE, missing |-> missing]
             ELSE OursLoop(existing, ours, Tail(order), missing)

\* A comparison that decides on the first field of existing that ours has too.
CompareFirstOnly(existing, ours, orderE, orderO) ==
    LET shared == SelectSeq(orderE, LAMBDA k : k \in DOMAIN ours)
    IN  [conflict |-> shared # <<>> /\ ~Equals(existing[Head(shared)], ours[Head(shared)]),
         missing |-> [k \in DOMAIN ours \ DOMAIN existing |-> ours[k]]]

\* Lines 176-200: the two loops one after the other.
Compare(existing, ours, orderE, orderO) ==
    IF ExistingLoop(existing, ours, orderE)
    THEN [conflict |-> TRUE, missing |-> EmptyMap]
    ELSE OursLoop(existing, ours, orderO, EmptyMap)

\* Lines 201-204: the missing fields are assigned to existing.
AddMissing(existing, missing) ==
    [k \in DOMAIN existing \cup DOMAIN missing |->
        IF k \in DOMAIN missing THEN missing[k] ELSE existing[k]]

\* typeExists with the iteration orders of its two loops made explicit.
typeExistsInOrder(name, parent, ours, tm, found, orderE, orderO) ==
    LET key == CanonicalKey(name)
    IN  IF Lookups(tm, key) = {}
        THEN Insert(tm, key, ours)
        ELSE LET c == Compare(tm[found], ours, orderE, orderO)
             IN  IF c.conflict
                 THEN [types |-> Put(tm, Qualified(parent, found), ours),
                       name |-> Qualified(parent, found), merged |-> FALSE]
                 ELSE [types |-> Put(tm, found, AddMissing(tm[found], c.missing)),
                       name |-> found, merged |-> TRUE]

-----------------------------------------------------------------------------
(* typeExists called on enumerated candidates.                              *)

\* Most typeExists calls made in one behaviour.
MaxCalls == 3

item == <<"i","t","e","m">>
tag == <<"t","a","g">>
fieldX == <<"x">>
fieldY == <<"y">>
fileA == <<"a",".","j","s","o","n">>

\* Raw names: one the override table may rename, its capitalized spelling
\* (which normalizes to the same key but is no exact match of the table), and
\* one that holds a '.' (a JSON key may).
RawNames == {tag, <<"T","a","g">>, <<"a",".","i","t","e","m">>}
Parents == {topLevel, <<"a">>}

\* --structnames tables.
OverrideTables == {EmptyMap, [k \in {tag} |-> <<"I","t","e","m">>]}

\* Descriptors unWrapMap gives: a string, a number, null.
StringDesc == MaybeType(FALSE, "string", <<>>, fileA)
NumberDesc == MaybeType(FALSE, "float64", <<>>, fileA)
NullDesc == MaybeType(FALSE, NilType, <<>>, fileA)

ShapeX(d) == [f \in {fieldX} |-> d]
ShapeXY(dx, dy) == [f \in {fieldX, fieldY} |-> IF f = fieldX THEN dx ELSE dy]

CandidateShapes ==
    {ShapeX(StringDesc), ShapeX(NumberDesc), ShapeX(NullDesc),
     [f \in {fieldY} |-> NumberDesc], ShapeXY(StringDesc, NumberDesc)}

\* The call repeats the arguments of the call made just before it.
SameCall(c, name, parent, ours) ==
    /\ c.op = "typeExists"
    /\ c.name = name /\ c.parent = parent /\ c.ours = ours

CallTypeExists(name, parent, ours) ==
    \E found \in FoundChoices(typeMap, CanonicalKey(name)) :
        LET r == typeExists(name, parent, ours, typeMap, found)
        IN  /\ typeMap' = r.types
            /\ call' = [op |-> "typeExists", name |-> name, parent |-> parent,
                        ours |-> ours, found |-> found, before |-> typeMap,
                        again |-> SameCall(call, name, parent, ours)]
            /\ ret' = [out |-> r.name, merged |-> r.merged]
            /\ calls' = calls + 1
            /\ UNCHANGED <<cfgVars, outerTypes, passVars, swagVars, mainVars>>

TypeExistsAction ==
    /\ calls < MaxCalls
    /\ \E name \in RawNames, parent \in Parents, ours \in CandidateShapes :
           CallTypeExists(name, parent, ours)

InitUnify ==
    /\ targetPackage = defaultPackage
    /\ fileTypeMap \in OverrideTables
    /\ typeMap = EmptyMap
    /\ outerTypes = EmptyMap
    /\ call = NoCall
    /\ ret = NoRet
    /\ calls = 0
    /\ NoPass
    /\ NoSwagger
    /\ NoMain

NextUnify == TypeExistsAction

SpecUnify == InitUnify /\ [][NextUnify]_vars

-----------------------------------------------------------------------------
(* Shapes unified one after the other under one name                        *)

\* More descriptors unWrapMap gives: an array of strings, a string found in
\* another file, a reference to the type item.
StringsDesc == MaybeType(TRUE, "string", <<>>, fileA)
OtherStringDesc == MaybeType(FALSE, "string", <<>>, <<"b",".","j","s","o","n">>)
ItemDesc == MaybeType(FALSE, NilType, item, fileA)

OrderShapes ==
    CandidateShapes \cup
    {ShapeX(StringsDesc), ShapeX(OtherStringDesc), ShapeXY(OtherStringDesc, ItemDesc),
     [f \in {fieldY} |-> ItemDesc]}

\* Most shapes unified under the name.
MaxShapes == 3

\* typeExists called for each shape of the sequence in turn, with the same
\* name and parent, on the registry the call before it left; the first call is
\* made on the empty registry, so that the lookup of every later call finds
\* the exact key.
RECURSIVE UnifyAll(_, _, _, _)
UnifyAll(name, parent, shapes, tm) ==
    IF shapes = <<>> THEN [types |-> tm, name |-> <<>>, merged |-> FALSE]
    ELSE LET r == typeExists(name, parent, Head(shapes), tm, CanonicalKey(name))
         IN  IF Tail(shapes) = <<>> THEN r
             ELSE UnifyAll(name, parent, Tail(shapes), r.types)

CallUnifyAll ==
    /\ calls = 0
    /\ \E S \in SUBSET OrderShapes, parent \in Parents :
          /\ S # {} /\ Cardinality(S) <= MaxShapes
          /\ \E order \in Orders(S) :
                LET r == UnifyAll(tag, parent, order, EmptyMap)
                IN  /\ typeMap' = r.types
                    /\ call' = [op |-> "unifyAll", name |-> tag, parent |-> parent,
                                shapes |-> order]
                    /\ ret' = [out |-> r.name, merged |-> r.merged]
                    /\ calls' = Len(order)
    /\ UNCHANGED <<cfgVars, outerTypes, passVars, swagVars, mainVars>>

NextOrder == CallUnifyAll

SpecOrder == InitUnify /\ [][NextOrder]_vars

-----------------------------------------------------------------------------
(* The JSON pass: typesFromMap and unWrapMap.                               *)

\* Decoded JSON values (encoding/json into interface{}).
JString == [tag |-> "string"]
JNumber == [tag |-> "number"]
JBool == [tag |-> "bool"]
JNull == [tag |-> "null"]
JArray(elems) == [tag |-> "array", elems |-> elems]
JObject(fields) == [tag |-> "object", fields |-> fields]

\* reflect.TypeOf of a decoded value.
ReflectTypeOf(v) ==
    CASE v.tag = "string" -> "string"
      [] v.tag = "number" -> "float64"
      [] v.tag = "bool" -> "bool"
      [] v.tag = "null" -> NilType
      [] v.tag = "array" -> SliceType
      [] v.tag = "object" -> MapType

\* filepath.Base of the path of a file.
Base(path) ==
    IF path = <<>> THEN <<".">> ELSE SliceFrom(path, LastIndex(path, "/") + 1)

\* A typesFromMap that names the type after the whole file name.
TopNameWhole(tn) == Base(tn)

\* Lines 58-60: the name of the type of a top-level object of file tn.
TopName(tn) == Split(Base(tn), ".")[1]

\* One unWrapMap call in progress: the object m and the name it was given, the
\* fields the range of line 81 has not given yet, aType, and for a call made
\* for a field of the call below it, that field (fn) and whether it holds an
\* array.
Frame(m, name, fn, isArray) ==
    [m |-> m, name |-> name, remaining |-> DOMAIN m, aType |-> EmptyMap,
     fn |-> fn, isArray |-> isArray]

Top == stack[Len(stack)]
Below == stack[Len(stack) - 1]
Pop(st) == SubSeq(st, 1, Len(st) - 1)
ReplaceTop(st, fr) == Append(Pop(st), fr)

\* Line 121, aType[fn] = it, in the innermost call, whose range then moves on.
SetField(fr, fn, it) ==
    [fr EXCEPT !.aType = Put(fr.aType, fn, it),
               !.remaining = fr.remaining \ {fn}]

\* Lines 54-55: the range over m gives a file it has not given yet.
BeginFile(tn) ==
    /\ file = <<>> /\ stack = <<>>
    /\ tn \in pending
    /\ file' = tn
    /\ idx' = 1
    /\ pending' = pending \ {tn}
    /\ UNCHANGED <<cfgVars, regVars, call, ret, calls, docs, stack, run,
                   previousFinal, swagVars, mainVars>>

\* Lines 56-61 and 67-69: the next value of the file. An object starts an
\* unWrapMap call; any other value is printed.
NextValue ==
    /\ file # <<>> /\ stack = <<>>
    /\ idx <= Len(docs[file])
    /\ LET tf == docs[file][idx]
       IN  IF tf.tag = "object"
           THEN /\ stack' = <<Frame(tf.fields, TopName(file), <<>>, FALSE)>>
                /\ idx' = idx
           ELSE /\ stack' = stack
                /\ idx' = idx + 1
    /\ UNCHANGED <<cfgVars, regVars, call, ret, calls, docs, pending, file, run,
                   previousFinal, swagVars, mainVars>>

\* Line 55: the values of the file are exhausted.
EndFile ==
    /\ file # <<>> /\ stack = <<>>
    /\ idx > Len(docs[file])
    /\ file' = <<>>
    /\ idx' = 0
    /\ UNCHANGED <<cfgVars, regVars, call, ret, calls, docs, pending, stack, run,
                   previousFinal, swagVars, mainVars>>

\* A sampling that takes the last element of the array.
SampleLast(field) == field[Len(field)]

\* Line 96: the element of a non-empty array that is looked at, field[0].
Sample(field) == field[1]

\* Lines 81-121 for a field that holds no object: the range over m gives a
\* field it has not given yet, and aType gets its descriptor.
UnwrapScalar(fn) ==
    /\ stack # <<>>
    /\ fn \in Top.remaining
    /\ LET f == Top.m[fn]
           it == IF f.tag = "array"
                 THEN IF Len(f.elems) = 0
                      THEN MaybeType(TRUE, NilType, emptyInterface, file)
                      ELSE MaybeType(TRUE, ReflectTypeOf(Sample(f.elems)), <<>>, file)
                 ELSE MaybeType(FALSE, ReflectTypeOf(f), <<>>, file)
       IN  /\ f.tag # "object"
           /\ f.tag = "array" /\ Len(f.elems) > 0 => Sample(f.elems).tag # "object"
           /\ stack' = ReplaceTop(stack, SetField(Top, fn, it))
    /\ UNCHANGED <<cfgVars, regVars, call, ret, calls, docs, pending, file, idx,
                   run, previousFinal, swagVars, mainVars>>

\* Lines 96-98 and 110-111: the field holds an object, or an array whose first
\* element is one: unWrapMap is called on it, with the name of the field.
UnwrapObject(fn) ==
    /\ stack # <<>>
    /\ fn \in Top.remaining
    /\ LET f == Top.m[fn]
       IN  \/ /\ f.tag = "object"
              /\ stack' = Append(stack, Frame(f.fields, fn, fn, FALSE))
           \/ /\ f.tag = "array" /\ Len(f.elems) > 0
              /\ Sample(f.elems).tag = "object"
              /\ stack' = Append(stack, Frame(Sample(f.elems).fields, fn, fn, TRUE))
    /\ UNCHANGED <<cfgVars, regVars, call, ret, calls, docs, pending, file, idx,
                   run, previousFinal, swagVars, mainVars>>

\* A typeExists call of the pass, and line 66, 104 or 116 after it.
Unify(name, parent, ours, found) ==
    LET r == typeExists(name, parent, ours, typeMap, found)
    IN  /\ typeMap' = r.types
        /\ outerTypes' = Put(outerTypes, r.name, file)
        /\ call' = [op |-> "typeExists", name |-> name, parent |-> parent,
                    ours |-> ours, found |-> found, before |-> typeMap,
                    again |-> SameCall(call, name, parent, ours)]
        /\ ret' = [out |-> r.name, merged |-> r.merged]
        /\ calls' = calls + 1

\* Lines 123, 103-105 and 115-117, 121: an unWrapMap call made for a field
\* returns; its shape is unified under the name of the field, with the name of
\* the enclosing call as parent, and the field refers to the name returned.
ReturnNested ==
    /\ Len(stack) > 1
    /\ Top.remaining = {}
    /\ \E found \in FoundChoices(typeMap, CanonicalKey(Top.fn)) :
          LET tName == typeExists(Top.fn, Below.name, Top.aType, typeMap, found).name
              it == MaybeType(Top.isArray, NilType, tName, file)
          IN  /\ Unify(Top.fn, Below.name, Top.aType, found)
              /\ stack' = ReplaceTop(Pop(stack), SetField(Below, Top.fn, it))
    /\ UNCHANGED <<cfgVars, docs, pending, file, idx, run, previousFinal, swagVars, mainVars>>

\* Lines 61-66: the unWrapMap call of a top-level object returns and its shape
\* is unified under the name of the file.
ReturnTop ==
    /\ Len(stack) = 1
    /\ Top.remaining = {}
    /\ \E found \in FoundChoices(typeMap, CanonicalKey(Top.name)) :
          Unify(Top.name, topLevel, Top.aType, found)
    /\ stack' = <<>>
    /\ idx' = idx + 1
    /\ UNCHANGED <<cfgVars, docs, pending, file, run, previousFinal, swagVars, mainVars>>

\* Line 73: typesFromMap has returned.
PassDone == run > 0 /\ pending = {} /\ file = <<>> /\ stack = <<>>

\* Most runs of the program over the same files in one behaviour.
MaxRuns == 2

\* The program is run again on the same files: lines 52-53.
RunAgain ==
    /\ PassDone
    /\ run < MaxRuns
    /\ run' = run + 1
    /\ previousFinal' = typeMap
    /\ typeMap' = EmptyMap
    /\ outerTypes' = EmptyMap
    /\ pending' = DOMAIN docs
    /\ call' = NoCall
    /\ ret' = NoRet
    /\ calls' = 0
    /\ UNCHANGED <<cfgVars, docs, file, idx, stack, swagVars, mainVars>>

\* Field names and files of the documents below.
price == <<"p","r","i","c","e">>
nameField == <<"n","a","m","e">>
color == <<"c","o","l","o","r">>
fieldID == <<"i","d">>
address == <<"a","d","d","r","e","s","s">>
city == <<"c","i","t","y">>
itemsField == <<"i","t","e","m","s">>
grid == <<"g","r","i","d">>
dotJSON == <<".","j","s","o","n">>
InDir(dir, name) == <<dir, "/">> \o name \o dotJSON

\* Files that each hold one object with the one field price.
ItemFiles(values) ==
    [tn \in {InDir(d, item) : d \in DOMAIN values} |->
        <<JObject([f \in {price} |-> values[tn[1]]])>>]

\* What may follow the first element of the array of o.json below.
LaterElements ==
    { <<>>,
      <<JObject(city :> JNumber)>>,
      <<JObject(price :> JNumber)>>,
      <<JString>>,
      <<JObject((city :> JString) @@ (price :> JBool)), JArray(<<>>)>> }

orderFile == <<"o">> \o dotJSON

\* o.json {"items": [{"city": "X"}, ...]}
SampledFiles(rest) ==
    orderFile :> <<JObject(itemsField :> JArray(<<JObject(city :> JString)>> \o rest))>>

\* e.json {"tag": {"x": "s", "name": {"city": "X"}}} and
\* f.json {"tag": {"x": ["s"], "name": [{"city": "X"}]}}
ScalarAndArrayFiles ==
    (<<"e">> \o dotJSON :>
        <<JObject(tag :> JObject((fieldX :> JString)
                                 @@ (nameField :> JObject(city :> JString))))>>)
      @@ (<<"f">> \o dotJSON :>
        <<JObject(tag :> JObject((fieldX :> JArray(<<JString>>))
                                 @@ (nameField :> JArray(<<JObject(city :> JString)>>))))>>)

\* k.json {"tag": {"x": "s"}, "a": {"tag": {"x": 1}}, "a_tag": {"x": "s"}}
NestedTagFiles ==
    <<"k">> \o dotJSON :>
        <<JObject((tag :> JObject(fieldX :> JString))
                  @@ (<<"a">> :> JObject(tag :> JObject(fieldX :> JNumber)))
                  @@ (<<"a","_","t","a","g">> :> JObject(fieldX :> JString)))>>

\* h.json {"a-b": {"x": 1}, "a_b": {"x": 1}}
DashFiles ==
    <<"h">> \o dotJSON :>
        <<JObject((<<"a","-","b">> :> JObject(fieldX :> JNumber))
                  @@ (<<"a","_","b">> :> JObject(fieldX :> JNumber)))>>

\* The sets of files the pass is run on.
\*  - two, and three, item.json whose price differs in type;
\*  - a.json {"tag": {"name": "n1"}}, b.json {"tag": {"name": "n1", "color": "c1"}};
\*  - user.json {"id": 1, "address": {"city": "X"}};
\*  - an array of two values, the first an object with arrays (of objects, of
\*    arrays, empty) and a null, the second a string;
\*  - an object with the fields Tag and tag, two objects that differ;
\*  - a file that holds a string;
\*  - o.json, an array of objects whose first element is {"city": "X"};
\*  - e.json and f.json, the same fields as scalars and as arrays;
\*  - k.json, a tag and a tag nested in a, beside a field a_tag;
\*  - h.json, fields whose names differ by '-' and '_'.
Corpora ==
    {SampledFiles(rest) : rest \in LaterElements} \cup
    { ScalarAndArrayFiles, NestedTagFiles, DashFiles,
      ItemFiles([d \in {"a", "b"} |-> IF d = "a" THEN JString ELSE JNumber]),
      ItemFiles([d \in {"a", "b", "c"} |->
                    IF d = "a" THEN JString ELSE IF d = "b" THEN JNumber ELSE JBool]),
      (<<"a">> \o dotJSON :> <<JObject(tag :> JObject(nameField :> JString))>>)
        @@ (<<"b">> \o dotJSON :>
              <<JObject(tag :> JObject((nameField :> JString) @@ (color :> JString)))>>),
      (<<"u","s","e","r">> \o dotJSON :>
          <<JObject((fieldID :> JNumber)
                    @@ (address :> JObject(city :> JString)))>>),
      (<<"l","i","s","t">> \o dotJSON :>
          <<JObject((itemsField :> JArray(<<JObject(fieldX :> JNumber),
                                           JObject(fieldX :> JString)>>))
                    @@ (grid :> JArray(<<JArray(<<JNumber>>)>>))
                    @@ (fieldY :> JArray(<<>>))
                    @@ (fieldX :> JNull)),
            JString>>),
      (<<"s">> \o dotJSON :>
          <<JObject((<<"T","a","g">> :> JObject(fieldX :> JNumber))
                    @@ (tag :> JObject(fieldX :> JString)))>>),
      (<<"t">> \o dotJSON :> <<JString>>) }

InitJSON ==
    /\ targetPackage = defaultPackage
    /\ fileTypeMap \in OverrideTables
    /\ typeMap = EmptyMap
    /\ outerTypes = EmptyMap
    /\ call = NoCall
    /\ ret = NoRet
    /\ calls = 0
    /\ docs \in Corpora
    /\ pending = DOMAIN docs
    /\ file = <<>>
    /\ idx = 0
    /\ stack = <<>>
    /\ run = 1
    /\ previousFinal = EmptyMap
    /\ NoSwagger
    /\ NoMain

NextJSON ==
    \/ \E tn \in pending : BeginFile(tn)
    \/ NextValue
    \/ EndFile
    \/ \E fn \in (IF stack = <<>> THEN {} ELSE Top.remaining) : UnwrapScalar(fn)
    \/ \E fn \in (IF stack = <<>> THEN {} ELSE Top.remaining) : UnwrapObject(fn)
    \/ ReturnNested
    \/ ReturnTop
    \/ RunAgain

SpecJSON == InitJSON /\ [][NextJSON]_vars

-----------------------------------------------------------------------------
(* The swagger pass: schemaIntoMap.                                         *)

\* SwaggerType
STArray == "array"
STBoolean == "boolean"
STInteger == "integer"
STNumber == "number"
STString == "string"
STObject == "object"

mapString == <<"m","a","p","[","s","t","r","i","n","g","]">>

\* MetaSwaggerProperty (the fields read), SwaggerProperty and their zero
\* values. AdditionalProperties, a pointer, is <<>> when nil and else holds the
\* one property it points to.
ZeroMeta ==
    [Type |-> "", Ref |-> <<>>, Description |-> "",
     AllOf |-> <<>>, AnyOf |-> <<>>, OneOf |-> <<>>]

SwaggerProperty(meta, items, additional) ==
    [Type |-> meta.Type, Ref |-> meta.Ref, Description |-> meta.Description,
     AllOf |-> meta.AllOf, AnyOf |-> meta.AnyOf, OneOf |-> meta.OneOf,
     Items |-> items, AdditionalProperties |-> additional]

\* SwaggerProperty{MetaSwaggerProperty: meta}
PropertyOf(meta) == SwaggerProperty(meta, ZeroMeta, <<>>)

\* A typeFromRef that keeps the whole $ref.
typeFromRefWhole(ref) == ref

typeFromRef(ref) ==
    IF LastIndex(ref, "/") < 0 THEN ref ELSE SliceFrom(ref, LastIndex(ref, "/") + 1)

RECURSIVE RefNames(_)
RefNames(multi) ==
    IF multi = <<>> THEN <<>>
    ELSE <<typeFromRef(Head(multi))>> \o RefNames(Tail(multi))

\* processMultiple; multi is the list of the Ref of each OnlyRef.
processMultiple(multi, description) ==
    [MaybeType(FALSE, NilType, <<>>, <<>>) EXCEPT
        !.description = description, !.multiType = RefNames(multi)]

\* maybeType{description: ..., typeOf: ..., nameOftype: ...}
Described(description, typeOf, nameOftype) ==
    [MaybeType(FALSE, typeOf, nameOftype, <<>>) EXCEPT !.description = description]

\* Lines 901-920: a property with no type, and the end of the function.
ResolveUntyped(prop) ==
    IF Len(prop.AllOf) > 0 THEN processMultiple(prop.AllOf, prop.Description)
    ELSE IF Len(prop.OneOf) > 0 THEN processMultiple(prop.OneOf, prop.Description)
    ELSE IF Len(prop.AnyOf) > 0 THEN processMultiple(prop.AnyOf, prop.Description)
    ELSE IF prop.Ref # <<>> THEN Described(prop.Description, NilType, typeFromRef(prop.Ref))
    ELSE Described(prop.Description, NilType, <<>>)

\* Lines 883-888: what additionalProperties resolved to becomes a map of it.
MapOf(aps) ==
    IF aps.nameOftype # <<>> THEN [aps EXCEPT !.nameOftype = mapString \o aps.nameOftype]
    ELSE IF aps.typeOf = NilType
    THEN [aps EXCEPT !.nameOftype = mapString \o emptyInterface]
    ELSE aps

\* Lines 831-845: the element of an array whose items hold no $ref.
ItemsMulti(items, description) ==
    IF Len(items.AnyOf) > 0 THEN processMultiple(items.AnyOf, description)
    ELSE IF Len(items.OneOf) > 0 THEN processMultiple(items.OneOf, description)
    ELSE IF Len(items.AllOf) > 0 THEN processMultiple(items.AllOf, description)
    ELSE MaybeType(FALSE, NilType, <<>>, <<>>)

RECURSIVE resolveSwaggerType(_)
resolveSwaggerType(prop) ==
    CASE prop.Type = STArray ->
            IF prop.Items.Ref # <<>>
            THEN [Described(prop.Description, NilType, typeFromRef(prop.Items.Ref))
                     EXCEPT !.isArray = TRUE]
            ELSE [(IF prop.Items.Type # ""
                   THEN resolveSwaggerType(PropertyOf(prop.Items))
                   ELSE ItemsMulti(prop.Items, prop.Description))
                     EXCEPT !.isArray = TRUE]
      [] prop.Type = STBoolean -> Described(prop.Description, "bool", <<>>)
      [] prop.Type = STInteger -> Described(prop.Description, "int64", <<>>)
      [] prop.Type = STNumber -> Described(prop.Description, "float64", <<>>)
      [] prop.Type = STString -> Described(prop.Description, "string", <<>>)
      [] prop.Type = STObject ->
            IF Len(prop.AllOf) > 0 THEN processMultiple(prop.AllOf, prop.Description)
            ELSE IF Len(prop.OneOf) > 0 THEN processMultiple(prop.OneOf, prop.Description)
            ELSE IF Len(prop.AnyOf) > 0 THEN processMultiple(prop.AnyOf, prop.Description)
            ELSE IF prop.AdditionalProperties # <<>>
            THEN MapOf(resolveSwaggerType(prop.AdditionalProperties[1]))
            ELSE IF prop.Ref # <<>>
            THEN Described(prop.Description, NilType, typeFromRef(prop.Ref))
            ELSE Described(prop.Description, NilType, <<>>)
      [] OTHER -> ResolveUntyped(prop)

processProperty(ps) == [fieldName \in DOMAIN ps |-> resolveSwaggerType(ps[fieldName])]

\* SwaggerSchema
SwaggerSchema(type, description, properties, meta) ==
    [Type |-> type, Description |-> description, Properties |-> properties,
     AllOf |-> meta.AllOf, AnyOf |-> meta.AnyOf, OneOf |-> meta.OneOf]

\* Lines 950-974: the entry of a component of type object.
ComponentType(component) ==
    IF Len(component.AllOf) > 0
    THEN [f \in {<<>>} |-> processMultiple(component.AllOf, component.Description)]
    ELSE IF Len(component.OneOf) > 0
    THEN [f \in {<<>>} |-> processMultiple(component.OneOf, component.Description)]
    ELSE IF Len(component.AnyOf) > 0
    THEN [f \in {<<>>} |-> processMultiple(component.AnyOf, component.Description)]
    ELSE processProperty(component.Properties)

\* Lines 946-977: the range over the components gives one it has not given
\* yet; a component of type object is registered under its name, one of any
\* other type is printed.
ProcessComponent(compName) ==
    /\ compName \in compsLeft
    /\ compsLeft' = compsLeft \ {compName}
    /\ extraComments' = Put(extraComments, compName, swagger[compName].Description)
    /\ typeMap' = IF swagger[compName].Type = STObject
                  THEN Put(typeMap, compName, ComponentType(swagger[compName]))
                  ELSE typeMap
    /\ UNCHANGED <<cfgVars, outerTypes, call, ret, calls, passVars, swagger, mainVars>>

\* Line 979: schemaIntoMap has returned.
SchemaDone == compsLeft = {} /\ DOMAIN extraComments = DOMAIN swagger

\* Names of components, and the $ref to one.
compA == <<"A">>
compB == <<"B">>
refPrefix == <<"#","/","c","o","m","p","o","n","e","n","t","s","/",
               "s","c","h","e","m","a","s","/">>
RefTo(compName) == refPrefix \o compName

Typed(type) == [ZeroMeta EXCEPT !.Type = type]
Referring(type, compName) == [ZeroMeta EXCEPT !.Type = type, !.Ref = RefTo(compName)]

\* type (or none) with allOf, oneOf or anyOf of one $ref.
Composites(type, compName) ==
    { [ZeroMeta EXCEPT !.Type = type, !.AllOf = <<RefTo(compName)>>],
      [ZeroMeta EXCEPT !.Type = type, !.OneOf = <<RefTo(compName)>>],
      [ZeroMeta EXCEPT !.Type = type, !.AnyOf = <<RefTo(compName)>>] }

\* What items and additionalProperties hold: a scalar, a $ref, a composite.
ElementInputs ==
    {Typed(STString), Typed(STInteger), Referring("", compB)}
        \cup Composites("", compB)

\* Properties: scalars, arrays, objects (plain, a $ref, a composite, a map),
\* and properties with no type.
PropertyInputs ==
    {PropertyOf(Typed(t)) : t \in {STString, STInteger, STNumber, STBoolean, STObject, ""}}
        \cup {PropertyOf([Referring(t, compB) EXCEPT !.Description = "d"]) : t \in {STObject, ""}}
        \cup {PropertyOf(m) : m \in Composites(STObject, compB) \cup Composites("", compB)}
        \cup {PropertyOf([ZeroMeta EXCEPT !.AnyOf = <<RefTo(compB), RefTo(compA)>>])}
        \cup {SwaggerProperty(Typed(STArray), items, <<>>) : items \in ElementInputs}
        \cup {SwaggerProperty(Typed(STObject), ZeroMeta, <<PropertyOf(e)>>) :
                 e \in {Typed(STString), Typed(STObject), Referring(STObject, compB)}}

\* Components: an object with one property or none, a composite of A, a string.
ComponentInputs ==
    {SwaggerSchema(STObject, "", ps, ZeroMeta) :
        ps \in {EmptyMap} \cup {[f \in {fieldX} |-> p] : p \in PropertyInputs}}
        \cup {SwaggerSchema(STObject, "d", EmptyMap, m) : m \in Composites("", compA)}
        \cup {SwaggerSchema(STString, "d", EmptyMap, ZeroMeta)}

\* The swagger files: the components A and B, so that every $ref of a file
\* names a component of the file.
SwaggerFiles ==
    {[c \in {compA, compB} |-> IF c = compA THEN a ELSE b] :
        a \in ComponentInputs, b \in ComponentInputs}

InitSwagger ==
    /\ targetPackage = defaultPackage
    /\ fileTypeMap = EmptyMap
    /\ typeMap = EmptyMap
    /\ outerTypes = EmptyMap
    /\ call = NoCall
    /\ ret = NoRet
    /\ calls = 0
    /\ NoPass
    /\ swagger \in SwaggerFiles
    /\ compsLeft = DOMAIN swagger
    /\ extraComments = EmptyMap
    /\ NoMain

NextSwagger == \E compName \in compsLeft : ProcessComponent(compName)

SpecSwagger == InitSwagger /\ [][NextSwagger]_vars

-----------------------------------------------------------------------------
(* realMain on JSON files: jsonIntoMap, typesFromMap, makeMeCode.           *)

\* What reading a file gives: os.Open fails, Decode fails, or the decoded value.
Unreadable == [kind |-> "unreadable"]
Garbage == [kind |-> "garbage"]
Decodes(v) == [kind |-> "json", value |-> v]

\* The errors of jsonIntoMap as realMain returns them.
errOpening == "reading files into maps: opening json file"
errDecoding == "reading files into maps: decoding file contents"
errNoClue == "reading files into maps: the json is %T and I have no clue what to do with it"

\* A jsonIntoMap that takes any decoded value.
TopLevelAny(t) ==
    IF t.tag = "array" THEN [err |-> NoError, values |-> t.elems]
    ELSE [err |-> NoError, values |-> <<t>>]

\* Lines 37-46: the values a decoded top-level value stands for.
TopLevel(t) ==
    CASE t.tag = "object" -> [err |-> NoError, values |-> <<t>>]
      [] t.tag = "array" -> [err |-> NoError, values |-> t.elems]
      [] t.tag = "string" -> [err |-> NoError, values |-> <<t>>]
      [] OTHER -> [err |-> errNoClue, values |-> <<>>]

\* A jsonIntoMap that goes on to the next file when one fails.
ReadStepSkipping(result, f, content) ==
    IF content.kind = "json" /\ TopLevel(content.value).err = NoError
    THEN [result |-> Put(result, f, TopLevel(content.value).values), err |-> NoError]
    ELSE [result |-> result, err |-> NoError]

\* Lines 28-47 for one file f: result[f] is set, or jsonIntoMap returns nil
\* and the error.
ReadStep(result, f, content) ==
    IF content.kind = "unreadable" THEN [result |-> EmptyMap, err |-> errOpening]
    ELSE IF content.kind = "garbage" THEN [result |-> EmptyMap, err |-> errDecoding]
    ELSE IF TopLevel(content.value).err # NoError
    THEN [result |-> EmptyMap, err |-> TopLevel(content.value).err]
    ELSE [result |-> Put(result, f, TopLevel(content.value).values), err |-> NoError]

\* jsonIntoMap lines 28-47: the next path of expanded is opened and decoded.
\* After an error realMain has returned and nothing more is done.
ReadFile ==
    /\ proc.phase = "parsed"
    /\ run = 0 /\ err = NoError
    /\ nRead < Len(expanded)
    /\ LET f == expanded[nRead + 1]
           r == ReadStep(docs, f, disk[f])
       IN  /\ docs' = r.result
           /\ err' = r.err
    /\ nRead' = nRead + 1
    /\ UNCHANGED <<cfgVars, regVars, call, ret, calls, pending, file, idx, stack,
                   run, previousFinal, swagVars, disk, expanded, output, proc>>

\* jsonIntoMap has returned its map: typesFromMap starts, lines 52-53.
StartPass ==
    /\ proc.phase = "parsed"
    /\ run = 0 /\ err = NoError
    /\ nRead = Len(expanded)
    /\ run' = 1
    /\ pending' = DOMAIN docs
    /\ typeMap' = EmptyMap
    /\ outerTypes' = EmptyMap
    /\ UNCHANGED <<cfgVars, call, ret, calls, docs, file, idx, stack,
                   previousFinal, swagVars, mainVars>>

\* realMain after typesFromMap: makeMeCode writes, to the standard output, one
\* struct for each key of the registry, named capitalize(key).
Render ==
    /\ PassDone /\ err = NoError
    /\ ~output.written
    /\ output' = [written |-> TRUE, structs |-> {capitalize(tk) : tk \in DOMAIN typeMap}]
    /\ UNCHANGED <<cfgVars, regVars, call, ret, calls, passVars, swagVars,
                   disk, expanded, nRead, err, proc>>

\* Everything but the process.
allButProc ==
    <<cfgVars, regVars, call, ret, calls, passVars, swagVars,
      disk, expanded, nRead, err, output>>

\* fmt.Errorf("flags step: %w", err)
errFlags == "flags step: "

\* Most calls of ErrBadUsage.Error the stack of the goroutine has room for.
MaxStack == 3

\* parseFlags, lines 43-58, on arguments that parse: realMain has its config.
ParseFlags ==
    /\ proc.phase = "start" /\ proc.args = "good"
    /\ proc' = [proc EXCEPT !.phase = "parsed"]
    /\ UNCHANGED allButProc

\* Line 54 on arguments that do not parse. What Parse does then is pflag's:
\* its CommandLine set is made with ExitOnError, and Parse ends the process
\* with status 2 itself; a set that hands the error back makes line 55 build
\* an ErrBadUsage, which realMain (lines 72-74) gives to fmt.Errorf, and that
\* calls its Error method to format "%w".
ParseFlagsFails ==
    /\ proc.phase = "start" /\ proc.args = "bad"
    /\ \/ proc' = [proc EXCEPT !.phase = "exited", !.status = 2, !.by = "Parse"]
       \/ proc' = [proc EXCEPT !.phase = "wrapping", !.depth = 1]
    /\ UNCHANGED allButProc

\* Lines 33-35: Error calls err.Error(), and err is the receiver: the method
\* calls itself.
ErrorCallsError ==
    /\ proc.phase = "wrapping"
    /\ proc.depth < MaxStack
    /\ proc' = [proc EXCEPT !.depth = proc.depth + 1]
    /\ UNCHANGED allButProc

\* The stack is exhausted: the Go runtime ends the process (fatal error:
\* stack overflow, exit status 2); realMain has not returned.
StackOverflow ==
    /\ proc.phase = "wrapping"
    /\ proc.depth = MaxStack
    /\ proc' = [proc EXCEPT !.phase = "exited", !.status = 2, !.by = "runtime"]
    /\ UNCHANGED allButProc

\* errors.As(err, &badUsage), for the errors realMain returns.
IsBadUsage(e) == e = errFlags

\* main, lines 60-69, once realMain has returned: an error is printed and
\* ends the process with status 2 when it wraps an ErrBadUsage, 1 otherwise;
\* without error main returns.
MainReturns ==
    /\ proc.phase = "parsed"
    /\ err # NoError \/ output.written
    /\ proc' = [proc EXCEPT
                   !.phase = "exited",
                   !.status = IF err = NoError THEN 0
                              ELSE IF IsBadUsage(err) THEN 2 ELSE 1,
                   !.by = "main"]
    /\ UNCHANGED allButProc

fileB == <<"b",".","j","s","o","n">>

\* What a file holds: nothing that can be read, and each kind of top-level
\* value.
Contents ==
    {Unreadable, Garbage,
     Decodes(JObject(fieldX :> JObject(fieldY :> JNumber))),
     Decodes(JArray(<<JObject(fieldX :> JString), JNumber>>)),
     Decodes(JString), Decodes(JNumber), Decodes(JBool), Decodes(JNull)}

Disks == [{fileA, fileB} -> Contents]

\* Lines 14-25: the paths the source files expand to.
ExpandedInputs == {<<fileA>>, <<fileA, fileB>>, <<fileB, fileA>>}

InitMain ==
    /\ targetPackage = defaultPackage
    /\ fileTypeMap = EmptyMap
    /\ typeMap = EmptyMap
    /\ outerTypes = EmptyMap
    /\ call = NoCall
    /\ ret = NoRet
    /\ calls = 0
    /\ NoPass
    /\ NoSwagger
    /\ disk \in Disks
    /\ expanded \in ExpandedInputs
    /\ nRead = 0
    /\ err = NoError
    /\ output = NoOutput
    /\ proc \in {Started(args) : args \in {"good", "bad"}}

NextMain ==
    \/ ParseFlags
    \/ ParseFlagsFails
    \/ ErrorCallsError
    \/ StackOverflow
    \/ MainReturns
    \/ ReadFile
    \/ StartPass
    \/ \E tn \in pending : BeginFile(tn)
    \/ NextValue
    \/ EndFile
    \/ \E fn \in (IF stack = <<>> THEN {} ELSE Top.remaining) : UnwrapScalar(fn)
    \/ \E fn \in (IF stack = <<>> THEN {} ELSE Top.remaining) : UnwrapObject(fn)
    \/ ReturnNested
    \/ ReturnTop
    \/ Render

SpecMain == InitMain /\ [][NextMain]_vars

-----------------------------------------------------------------------------
(* Properties of typeExists.                                                *)

\* The key of the call just made: the normalized override of its raw name when
\* the table holds the raw name, the normalized raw name otherwise.
OverrideKey ==
    IF call.name \in DOMAIN fileTypeMap
    THEN normalizeNames(fileTypeMap[call.name], targetPackage)
    ELSE normalizeNames(call.name, targetPackage)

\* The call just made found an entry of the registry it was given.
Matched == call.op = "typeExists" /\ call.found \in DOMAIN call.before

SharedFields == DOMAIN call.before[call.found] \cap DOMAIN call.ours

AllSharedEquivalent ==
    \A f \in SharedFields : Equals(call.before[call.found][f], call.ours[f])

\* The keys whose entry the call created or changed.
Touched ==
    {k \in DOMAIN typeMap : k \notin DOMAIN call.before \/ typeMap[k] # call.before[k]}

\* C1: when the lookup matches an entry and every field the two shapes share
\* has Equals descriptors, the call returns the matched key; the entry then
\* has the fields of both shapes, the existing ones with the descriptor they
\* had, the new ones with the candidate's; no other entry changes. {x: string}
\* followed by {x: string, y: number} gives the single entry {x: string, y: number}.
WideningLaw ==
    /\ (Matched /\ AllSharedEquivalent) =>
          /\ ret.out = call.found
          /\ ret.merged
          /\ DOMAIN typeMap = DOMAIN call.before
          /\ \A k \in DOMAIN call.before \ {call.found} : typeMap[k] = call.before[k]
          /\ DOMAIN typeMap[call.found] =
                 DOMAIN call.before[call.found] \cup DOMAIN call.ours
          /\ \A f \in DOMAIN call.before[call.found] :
                 typeMap[call.found][f] = call.before[call.found][f]
          /\ \A f \in DOMAIN call.ours \ DOMAIN call.before[call.found] :
                 typeMap[call.found][f] = call.ours[f]
    /\ (/\ call.op = "typeExists"
        /\ call.before = [k \in {OverrideKey} |-> ShapeX(StringDesc)]
        /\ call.ours = ShapeXY(StringDesc, NumberDesc)) =>
          typeMap = [k \in {OverrideKey} |-> ShapeXY(StringDesc, NumberDesc)]

\* A widening call that added a field to an entry that already had others.
WideningWitness ==
    /\ Matched /\ AllSharedEquivalent
    /\ SharedFields # {}
    /\ DOMAIN call.ours \ DOMAIN call.before[call.found] # {}
    /\ Cardinality(DOMAIN call.before) > 1

\* C3: a call that repeats the arguments of the call before it leaves the
\* registry as that call left it.
MergeIdempotent == (call.op = "typeExists" /\ call.again) => typeMap = call.before

\* C4: no call removes a key of the registry, nor a field of an entry, nor
\* changes the descriptor of a field an entry has.
OnlyWidened ==
    call.op = "typeExists" =>
        \A k \in DOMAIN call.before :
            /\ k \in DOMAIN typeMap
            /\ \A f \in DOMAIN call.before[k] :
                   f \in DOMAIN typeMap[k] /\ typeMap[k][f] = call.before[k][f]

\* C7: the key of a call is the normalized override of the raw name when the
\* table holds the raw name, the normalized raw name otherwise; the call
\* returns that key or a key qualified from it, and touches no other entry (so
\* not the entry of the normalized raw name, when an override applies).
OverridePrecedence ==
    call.op = "typeExists" =>
        /\ \/ ret.out = OverrideKey
           \/ HasSuffix(ret.out, <<".">> \o OverrideKey)
        /\ Touched \subseteq {ret.out}

\* A call whose raw name the table renames to a name with another key.
OverrideWitness ==
    /\ call.op = "typeExists"
    /\ call.name \in DOMAIN fileTypeMap
    /\ normalizeNames(call.name, targetPackage) # OverrideKey
    /\ normalizeNames(call.name, targetPackage) \in DOMAIN call.before
    /\ Touched # {}

-----------------------------------------------------------------------------
(* Properties of the passes.                                                *)

\* C2: when the call matched an entry and some field of both shapes has
\* descriptors that are not Equals, the candidate is registered under
\* "<parent>.<matched key>", another key than the matched one, which the call
\* returns, and the matched entry is as it was. Two item.json, price a string
\* in one and a number in the other, end with the keys item and topLevel.item.
ForkLaw ==
    /\ (Matched /\ ~AllSharedEquivalent) =>
          /\ ret.out = Qualified(call.parent, call.found)
          /\ ret.out # call.found
          /\ ~ret.merged
          /\ DOMAIN typeMap = DOMAIN call.before \cup {ret.out}
          /\ typeMap[ret.out] = call.ours
          /\ typeMap[call.found] = call.before[call.found]
    /\ (PassDone /\ DOMAIN docs = {InDir("a", item), InDir("b", item)}) =>
          DOMAIN typeMap = {item, Qualified(topLevel, item)}

\* The pass over the two item.json has ended, with a fork as its last call.
ForkWitness ==
    /\ PassDone
    /\ DOMAIN docs = {InDir("a", item), InDir("b", item)}
    /\ Matched /\ ~AllSharedEquivalent
    /\ call.parent = topLevel /\ call.found = item

\* The names a shape refers to: the name of each field that names a type of
\* the registry (not interface{}, not a map), and the members of multiType.
IsReference(name) ==
    name # <<>> /\ name # emptyInterface /\ ~HasPrefix(name, mapPrefix)

References(shape) ==
    {shape[f].nameOftype : f \in {g \in DOMAIN shape : IsReference(shape[g].nameOftype)}}
        \cup UNION {{shape[f].multiType[i] : i \in 1..Len(shape[f].multiType)} :
                       f \in DOMAIN shape}

\* C5: when typesFromMap or schemaIntoMap has returned, every name a shape of
\* the registry refers to is a key of the registry.
ClosedWorld ==
    (PassDone \/ SchemaDone) =>
        \A k \in DOMAIN typeMap : References(typeMap[k]) \subseteq DOMAIN typeMap

\* C6: a run over the files of the run before it ends with the registry that
\* run ended with.
SameRegistryEveryRun == (PassDone /\ run > 1) => typeMap = previousFinal

\* Decomposing the object with these fields meets an array whose first
\* element is an array (lines 89-108 sample the first element only).
RECURSIVE MeetsNestedArray(_)
MeetsNestedArray(fields) ==
    \E fn \in DOMAIN fields :
        LET f == fields[fn]
        IN  \/ f.tag = "object" /\ MeetsNestedArray(f.fields)
            \/ /\ f.tag = "array" /\ Len(f.elems) > 0
               /\ \/ f.elems[1].tag = "array"
                  \/ f.elems[1].tag = "object" /\ MeetsNestedArray(f.elems[1].fields)

\* The files whose decomposition meets a nested array.
NestedArrayFiles ==
    {tn \in DOMAIN docs :
        \E i \in 1..Len(docs[tn]) :
            docs[tn][i].tag = "object" /\ MeetsNestedArray(docs[tn][i].fields)}

\* C11: a pass over files of which one holds a field whose value is an array
\* of arrays does not return without an error.
NestedArraysReported == (PassDone /\ NestedArrayFiles # {}) => err # NoError

\* The files jsonIntoMap has been through.
FilesRead == {expanded[i] : i \in 1..nRead}

\* realMain has returned this error, nothing was unified and nothing written.
AbortedWith(e) ==
    /\ err = e
    /\ run = 0
    /\ docs = EmptyMap
    /\ typeMap = EmptyMap /\ outerTypes = EmptyMap
    /\ output = NoOutput

\* C12: once jsonIntoMap has read a file whose top-level value is a number, a
\* boolean or null, realMain has returned the error of jsonIntoMap, no
\* registry is built and nothing is written.
TopLevelRefused ==
    (\E f \in FilesRead :
        disk[f].kind = "json" /\ disk[f].value.tag \in {"number", "bool", "null"})
    => AbortedWith(errNoClue)

\* The second file read holds null and the first one an object.
TopLevelWitness ==
    /\ nRead = 2
    /\ disk[expanded[1]].kind = "json" /\ disk[expanded[1]].value.tag = "object"
    /\ disk[expanded[2]] = Decodes(JNull)
    /\ err # NoError

\* C13: once jsonIntoMap has read a file that cannot be opened or decoded,
\* realMain has returned an error, no file (those read before it included) has
\* given anything to a registry, and nothing is written.
NoPartialState ==
    (\E f \in FilesRead : disk[f].kind \in {"unreadable", "garbage"})
    => (AbortedWith(errOpening) \/ AbortedWith(errDecoding))

\* The second file read cannot be decoded and the first one holds an object.
NoPartialWitness ==
    /\ nRead = 2
    /\ disk[expanded[1]].kind = "json" /\ disk[expanded[1]].value.tag = "object"
    /\ disk[expanded[2]] = Garbage
    /\ err = errDecoding

user == <<"u","s","e","r">>
userFile == user \o dotJSON

\* The registry of the user.json scenario, a JSON number being given the
\* reflect.Type named kind.
UserRegistry(kind) ==
    (user :> ((fieldID :> MaybeType(FALSE, kind, <<>>, userFile))
              @@ (address :> MaybeType(FALSE, NilType, address, userFile))))
      @@ (address :> (city :> MaybeType(FALSE, "string", <<>>, userFile)))

\* C14 as stated: the pass over user.json = {"id": 1, "address": {"city": "X"}}
\* ends with user = {id: integer, address: the type address} and
\* address = {city: string}, and no other key.
UserScenarioInteger ==
    (PassDone /\ DOMAIN docs = {userFile}) => typeMap = UserRegistry("int64")

\* C14: the pass over user.json = {"id": 1, "address": {"city": "X"}} ends with
\* user = {id: float64, address: the type address} and address = {city: string},
\* and no other key.
UserScenario ==
    (PassDone /\ DOMAIN docs = {userFile}) => typeMap = UserRegistry("float64")

\* The pass over user.json has ended.
UserScenarioWitness ==
    /\ PassDone /\ DOMAIN docs = {userFile}
    /\ DOMAIN typeMap = {user, address}
    /\ call.op = "typeExists" /\ call.name = user /\ call.parent = topLevel

-----------------------------------------------------------------------------
(* Properties of the swagger pass.                                          *)

\* The properties schemaIntoMap has resolved with resolveSwaggerType: those of
\* the components it has registered.
Resolved ==
    {cf \in (DOMAIN typeMap) \X (UNION {DOMAIN swagger[c].Properties : c \in DOMAIN swagger}) :
        cf[2] \in (DOMAIN swagger[cf[1]].Properties) \cap (DOMAIN typeMap[cf[1]])}

\* What follows the last '/' of a $ref.
AfterLastSlash(ref) == LET parts == Split(ref, "/") IN parts[Len(parts)]

LastSegments(refs) == [i \in 1..Len(refs) |-> AfterLastSlash(refs[i])]

MapsDistinguished ==
    \A cf \in Resolved :
        LET prop == swagger[cf[1]].Properties[cf[2]]
        IN  (/\ prop.Type = STObject
             /\ Len(prop.AllOf) + Len(prop.OneOf) + Len(prop.AnyOf) = 0
             /\ prop.AdditionalProperties # <<>>) =>
                typeMap[cf[1]][cf[2]] # resolveSwaggerType(prop.AdditionalProperties[1])

-----------------------------------------------------------------------------
(* Properties of the provenance (outerTypes).                               *)

\* C17: when the pass has ended every key of the registry has a provenance,
\* and during a pass the provenance a key has been given does not change: it
\* stays the file whose processing inserted the key.
ProvenanceKept ==
    /\ [](PassDone => DOMAIN typeMap \subseteq DOMAIN outerTypes)
    /\ [][run' = run =>
            \A k \in DOMAIN outerTypes :
                k \in DOMAIN outerTypes' /\ outerTypes'[k] = outerTypes[k]]_vars

-----------------------------------------------------------------------------
(* Properties of the comparison of fields.                                  *)

\* The variant of a descriptor.
Variant(d) ==
    IF d.isArray THEN "array"
    ELSE IF d.multiType # <<>> THEN "multi"
    ELSE IF d.typeOf # NilType THEN "primitive"
    ELSE IF d.nameOftype # <<>> THEN "named"
    ELSE "unknown"

\* Same variant and, for primitives, the same kind, for references, the same
\* name.
Equivalent(a, b) ==
    /\ Variant(a) = Variant(b)
    /\ a.typeOf = b.typeOf
    /\ a.nameOftype = b.nameOftype

\* C18: a call that matched an entry merges exactly when every field of both
\* shapes has equivalent descriptors: the same variant and, for primitives,
\* the same kind, for references, the same name (so identical descriptors,
\* those of no determined type included, never make a fork).
ComparesByVariant ==
    Matched =>
        (ret.merged <=>
            \A f \in SharedFields : Equivalent(call.before[call.found][f], call.ours[f]))

-----------------------------------------------------------------------------
(* Properties of the order of fields and of new types.                      *)

\* The call just made, its two loops run in the given orders.
InOrder(orderE, orderO) ==
    typeExistsInOrder(call.name, call.parent, call.ours, call.before, call.found,
                      orderE, orderO)

\* C19: for a given registry, name, parent and candidate, the key typeExists
\* returns and the registry it leaves are the same in whatever order the
\* fields of the existing shape and of the candidate are visited.
FieldOrderIndependent ==
    Matched =>
        \A orderE \in Orders(DOMAIN call.before[call.found]),
           orderO \in Orders(DOMAIN call.ours) :
            InOrder(orderE, orderO) =
                [types |-> typeMap, name |-> ret.out, merged |-> ret.merged]

\* A call whose two shapes share two fields, one with Equals descriptors and
\* one without.
FieldOrderWitness ==
    /\ Matched
    /\ Cardinality(SharedFields) = 2
    /\ ~AllSharedEquivalent
    /\ \E f \in SharedFields : Equals(call.before[call.found][f], call.ours[f])

\* C20: when the canonical key is not in the registry and no key of the
\* registry has it as its last dot-separated segment, the call stores the
\* candidate under the canonical key, returns that key and changes no other
\* entry.
NewTypeInserted ==
    (/\ call.op = "typeExists"
     /\ OverrideKey \notin DOMAIN call.before
     /\ \A k \in DOMAIN call.before : LastSegment(k) # OverrideKey)
    => /\ ret.out = OverrideKey
       /\ ~ret.merged
       /\ DOMAIN typeMap = DOMAIN call.before \cup {OverrideKey}
       /\ typeMap[OverrideKey] = call.ours
       /\ \A k \in DOMAIN call.before : typeMap[k] = call.before[k]

\* A new type stored in a registry that already had entries.
NewTypeWitness ==
    /\ call.op = "typeExists"
    /\ call.before # EmptyMap
    /\ OverrideKey \notin DOMAIN call.before
    /\ \A k \in DOMAIN call.before : LastSegment(k) # OverrideKey
    /\ ret.out \in DOMAIN typeMap

-----------------------------------------------------------------------------
(* Properties of the lookup by last segment.                                *)

\* The call just made looked for a key the registry did not have, while some
\* key of the registry had it as its last segment.
LastSegmentMatch ==
    /\ call.op = "typeExists"
    /\ OverrideKey \notin DOMAIN call.before
    /\ \E k \in DOMAIN call.before : LastSegment(k) = OverrideKey

\* C21: when the canonical key is not a key of the registry and some key has
\* it as its last dot-separated segment, such a full key is taken as the
\* existing entry: a candidate whose shared fields are all Equals is merged
\* into the entry under the full key, the full key is returned, and nothing
\* is stored under the bare canonical key.
LastSegmentLaw ==
    LastSegmentMatch =>
        /\ call.found \in DOMAIN call.before
        /\ LastSegment(call.found) = OverrideKey
        /\ AllSharedEquivalent =>
            /\ ret.out = call.found
            /\ ret.merged
            /\ DOMAIN typeMap = DOMAIN call.before
            /\ OverrideKey \notin DOMAIN typeMap
            /\ DOMAIN typeMap[call.found] =
                   DOMAIN call.before[call.found] \cup DOMAIN call.ours
            /\ \A f \in DOMAIN call.before[call.found] :
                   typeMap[call.found][f] = call.before[call.found][f]
            /\ \A f \in DOMAIN call.ours \ DOMAIN call.before[call.found] :
                   typeMap[call.found][f] = call.ours[f]

\* A last-segment match whose candidate brought a new field to the entry.
LastSegmentWitness ==
    /\ LastSegmentMatch
    /\ AllSharedEquivalent
    /\ ret.merged
    /\ DOMAIN call.ours \ DOMAIN call.before[call.found] # {}

-----------------------------------------------------------------------------
(* Properties of the sampling of arrays.                                    *)

\* The registry of o.json = {"items": [{"city": "X"}]}.
SampledRegistry ==
    (<<"o">> :> (itemsField :> MaybeType(TRUE, NilType, itemsField, orderFile)))
      @@ (itemsField :> (city :> MaybeType(FALSE, "string", <<>>, orderFile)))

\* C22: for an array whose first element is an object only that element is
\* decomposed and unified: whatever follows {"city": "X"} in the array of
\* o.json, the pass ends with the descriptor of the field and the registry
\* that the array of the one element gives.
SampledFirstOnly ==
    (PassDone /\ docs \in {SampledFiles(rest) : rest \in LaterElements})
        => typeMap = SampledRegistry

\* The pass has ended on an array whose later elements are objects of another
\* shape than the first.
SampledWitness ==
    /\ PassDone
    /\ \E rest \in LaterElements :
          /\ docs = SampledFiles(rest)
          /\ \E i \in DOMAIN rest :
                rest[i].tag = "object" /\ DOMAIN rest[i].fields # {city}

-----------------------------------------------------------------------------
(* Properties of the comparison of arrays.                                  *)

\* Two descriptors of the same primitive kind, or that refer to the same type,
\* whether each is an array or not.
SameButArray(a, b) ==
    \/ a.typeOf # NilType /\ a.typeOf = b.typeOf
    \/ a.typeOf = NilType /\ b.typeOf = NilType
         /\ a.nameOftype # <<>> /\ a.nameOftype = b.nameOftype

\* The fields of both shapes of the call just made that are an array in one
\* and not in the other.
ArrayInOne ==
    {f \in SharedFields : call.before[call.found][f].isArray # call.ours[f].isArray}

\* C23: the comparison of fields does not look at isArray. A call that matched
\* an entry whose shared fields are of the same primitive kind, or refer to the
\* same type, in both shapes, array or not, merges without a fork, and every
\* field of the entry keeps the descriptor it had.
ArrayFlagIgnored ==
    (/\ Matched
     /\ \A f \in SharedFields : SameButArray(call.before[call.found][f], call.ours[f]))
    => /\ ret.merged
       /\ ret.out = call.found
       /\ DOMAIN typeMap = DOMAIN call.before
       /\ \A f \in DOMAIN call.before[call.found] :
              typeMap[call.found][f] = call.before[call.found][f]

\* A merge of two shapes with a primitive field and a reference field that
\* are arrays in one shape and not in the other.
ArrayFlagWitness ==
    /\ Matched
    /\ ret.merged
    /\ \E f \in ArrayInOne : call.ours[f].typeOf # NilType
    /\ \E f \in ArrayInOne : call.ours[f].typeOf = NilType

-----------------------------------------------------------------------------
(* Properties of the order of merges.                                       *)

\* Two descriptors of the same primitive kind or that refer to the same type,
\* both arrays or both not.
Agree(a, b) == SameButArray(a, b) /\ a.isArray = b.isArray

\* The shapes just unified one after the other.
Unified == {call.shapes[i] : i \in DOMAIN call.shapes}

\* Every two of them agree on every field both have.
PairwiseAgree ==
    \A s, t \in Unified :
        s # t => \A f \in (DOMAIN s) \cap (DOMAIN t) : Agree(s[f], t[f])

\* C24: when the shapes unified under one canonical key agree two by two on
\* every field they share, then in whatever order they are unified there is
\* no fork, and the entry under the key has the fields of all of them and no
\* other, each with the type agreed on.
MergeOrderIndependent ==
    (call.op = "unifyAll" /\ PairwiseAgree) =>
        LET key == OverrideKey
        IN  /\ DOMAIN typeMap = {key}
            /\ ret.out = key
            /\ DOMAIN typeMap[key] = UNION {DOMAIN s : s \in Unified}
            /\ \A f \in DOMAIN typeMap[key] :
                   \E s \in Unified : f \in DOMAIN s /\ typeMap[key][f] = s[f]

\* Three shapes that agree, no two with the same fields, have been unified.
MergeOrderWitness ==
    /\ call.op = "unifyAll"
    /\ PairwiseAgree
    /\ Len(call.shapes) = 3
    /\ \A i, j \in DOMAIN call.shapes :
          i # j => DOMAIN call.shapes[i] # DOMAIN call.shapes[j]

-----------------------------------------------------------------------------
(* Properties of the keys of forks.                                         *)

\* The keys of a registry that a fork made, "<parent>.<key>".
Forked(tm) == {k \in DOMAIN tm : LastSegment(k) # k}

\* C25: in the pass over JSON files whose field names and file names hold no
\* '.', every key a fork made stands in the registry together with the key
\* it was forked from, and the lookup of a call always finds its key itself,
\* never another key by its last segment.
ForksKeepBase ==
    /\ \A k \in Forked(typeMap) : LastSegment(k) \in DOMAIN typeMap
    /\ call.op = "typeExists" =>
          /\ \A k \in Forked(call.before) : LastSegment(k) \in DOMAIN call.before
          /\ call.found = OverrideKey
          /\ ~LastSegmentMatch

\* A call has looked up a key from which a fork had been made before.
ForksKeepBaseWitness ==
    /\ call.op = "typeExists"
    /\ \E k \in Forked(call.before) : LastSegment(k) = OverrideKey
    /\ OverrideKey \in DOMAIN call.before

-----------------------------------------------------------------------------
(* Properties of the declarations written.                                  *)

\* C26: when the pass has ended, no two keys of the registry are written by
\* makeMeCode under the same struct name: capitalize gives different names to
\* different keys, those of forks included.
OneDeclarationPerType ==
    PassDone =>
        \A k1, k2 \in DOMAIN typeMap : k1 # k2 => capitalize(k1) # capitalize(k2)

-----------------------------------------------------------------------------
(* Properties of usage errors.                                              *)

\* C27: when the arguments do not parse, ErrBadUsage.Error is not entered
\* again while it runs, and the process ends in main, after realMain returned
\* without reading a file, with status 2; a process that ends on any other
\* error ends in main with status 1.
UsageErrorReported ==
    /\ proc.args = "bad" =>
          /\ proc.depth <= 1
          /\ nRead = 0 /\ docs = EmptyMap
          /\ proc.phase = "exited" => proc.by = "main" /\ proc.status = 2
    /\ (proc.args = "good" /\ proc.phase = "exited" /\ err # NoError) =>
          proc.by = "main" /\ proc.status = 1

=============================================================================
